---- MODULE Spec2Model ----
(***************************************************************************)
(* Model of the exponential back-off Retrier of WinPooh32/retry.           *)
(*                                                                         *)
(* Two generations of the Retrier are in the sources:                      *)
(*   GoVer  - src/retrier.go:          Attempts = 0 means unlimited,       *)
(*   OptVer - src/unnamed/part_001:    Attempts < 0 means unlimited,       *)
(*                                     configured by Option functions.     *)
(* Both share the Wait/Reset code except for the attempt-budget step.      *)
(*                                                                         *)
(* Durations (time.Duration, a signed integer) are integers.  The float64  *)
(* fields Rate and Jitter are rationals n/FloatDen and are stored as their *)
(* numerator n; a sample of rand.NormFloat64() is an integer z.            *)
(* Converting a float to time.Duration truncates toward zero.              *)
(*                                                                         *)
(* Wait is split at the points where the caller's goroutine can observe    *)
(* the context: the entry select, the bookkeeping, and the final select    *)
(* between time.After and ctx.Done.  Cancel is another goroutine.          *)
(***************************************************************************)
EXTENDS Integers, Naturals, Sequences, FiniteSets, TLC

\* ------------------------------------------------------------------ bounds
\* Floor and Ceil are drawn from -NegDur .. MaxDur.
MaxDur == 2
NegDur == 1
\* Rate and Jitter are multiples of 1/FloatDen.
FloatDen == 2
\* Rate = n/FloatDen for n in 1..MaxRateNum (Rate > 0).
MaxRateNum == 4
\* Jitter = n/FloatDen for n in 0..MaxJitterNum.
MaxJitterNum == 1
\* A normal sample z is drawn from -MaxNorm..MaxNorm.
MaxNorm == 3
\* Initial attempt budgets: 0..MaxAttempts (GoVer), -1..MaxAttempts (OptVer).
MaxAttempts == 2
\* The caller makes at most MaxCalls calls of Wait.
MaxCalls == 3

\* ------------------------------------------------------------ the versions
GoVer == "retrier.go"
OptVer == "part_001"
Versions == {GoVer, OptVer}

Durations == (0 - NegDur)..MaxDur
Rates == 1..MaxRateNum
Jitters == 0..MaxJitterNum
NormSamples == (0 - MaxNorm)..MaxNorm

\* The duration given to time.After: <<d>>, or <<>> when no timer was started.
NoTimer == <<>>

VARIABLES
    ver,        \* which source file's Retrier this is
    r,          \* the Retrier: Attempts, Delay, Floor, Ceil, Rate, Jitter
    ctxDone,    \* the ctx given to Wait is cancelled (ctx.Done() is closed)
    pc,         \* the caller: "idle", or inside Wait at "book" or "select"
    timer,      \* the duration given to time.After by the running call
    fired,      \* the channel of time.After has a value to receive
    pre,        \* history: the Retrier as the running/last operation found it
    prevOp,     \* history: the operation completed before the running/last one
    last,       \* history: the last completed operation
    nWait,      \* history: number of completed Wait calls
    nTrue,      \* history: number of Wait calls that returned true
    attempts0,  \* history: Attempts as constructed
    everReset,  \* history: Reset has been called
    everDone,   \* history: some ctx given to Wait has been cancelled
    proceeded,  \* history: a Wait returned true since construction / the last Reset
    fresh,      \* history: the first Wait, when it ran to its timer on the new Retrier
    nCut,       \* history: number of Wait calls that ctx.Done ended in the final select
    exhausted,  \* history: a Wait has returned false on the attempt budget
    drv,        \* the retry driver loop around the Retrier: count, pc
    pair        \* a retrier.go Retrier and a part_001 Retrier given the same inputs

vars == <<ver, r, ctxDone, pc, timer, fired, pre, prevOp, last, nWait, nTrue,
          attempts0, everReset, everDone, proceeded, fresh, nCut, exhausted,
          drv, pair>>

hist == <<pre, prevOp, last, nWait, nTrue, attempts0, everReset, everDone,
          proceeded, fresh>>

\* The driver loop and the pair of Retriers, which Wait and Reset leave alone.
side == <<drv, pair>>

\* ------------------------------------------------------- float arithmetic
\* time.Duration(x) of the float x = a/b (b > 0): truncation toward zero.
TruncDiv(a, b) == IF a >= 0 THEN a \div b ELSE 0 - ((0 - a) \div b)

\* time.Duration(float64(d) * rate), rate = rateNum/FloatDen.
MulRate(d, rateNum) == TruncDiv(d * rateNum, FloatDen)

Min(a, b) == IF a <= b THEN a ELSE b

\* ------------------------------------------------------------ constructors
\* retrier.go New(floor, ceil), followed by the caller's assignments to the
\* exported fields Attempts, Rate and Jitter.
NewGo(floor, ceil, attempts, rate, jitter) ==
    [Attempts |-> attempts, Delay |-> 0, Floor |-> floor, Ceil |-> ceil,
     Rate |-> rate, Jitter |-> jitter]

\* Mutant of NewOpt: the delay starts at the floor.
NewOptFromFloor(floor, ceil, attempts, rate, jitter) ==
    [Attempts |-> attempts, Delay |-> floor, Floor |-> floor, Ceil |-> ceil,
     Rate |-> rate, Jitter |-> jitter]

\* part_001 New(floor, ceil, Attempts(attempts), Rate(rate), Jitter(jitter));
\* attempts = -1 is New without the Attempts option.
NewOpt(floor, ceil, attempts, rate, jitter) ==
    [Attempts |-> attempts, Delay |-> 0, Floor |-> floor, Ceil |-> ceil,
     Rate |-> rate, Jitter |-> jitter]

\* Attempts value a means no attempt budget.
Unlimited(v, a) == IF v = GoVer THEN a = 0 ELSE a < 0

\* ------------------------------------------------------- the steps of Wait
\* if r.Delay < r.Ceil { r.Delay = time.Duration(float64(r.Delay) * r.Rate) }
Grow(d, ceil, rateNum) == IF d < ceil THEN MulRate(d, rateNum) ELSE d

\* Mutant of applyJitter: the Jitter factor is lost, the deviation is the delay's.
applyJitterUnscaled(d, jitterNum, z) == TruncDiv(z * d + FloatDen * d, FloatDen)

\* applyJitter with the normal sample z:
\* time.Duration(z*(jitter*float64(d)) + float64(d)), jitter = jitterNum/FloatDen.
applyJitter(d, jitterNum, z) ==
    IF jitterNum = 0 THEN d
    ELSE TruncDiv(z * jitterNum * d + FloatDen * d, FloatDen)

\* Mutant of ClampCeil: the ceiling is not applied.
ClampCeilNone(d, ceil) == d

\* if r.Delay > r.Ceil { r.Delay = r.Ceil }
ClampCeil(d, ceil) == IF d > ceil THEN ceil ELSE d

\* if r.Delay < r.Floor { r.Delay = r.Floor }
ClampFloor(d, floor) == IF d < floor THEN floor ELSE d

\* The delay after growth, jitter and the ceiling clamp.
NextDelay(rr, z) ==
    ClampCeil(applyJitter(Grow(rr.Delay, rr.Ceil, rr.Rate), rr.Jitter, z), rr.Ceil)

\* Mutant of BudgetGo: the last attempt is not special, the budget runs down to 0.
BudgetGoNoLast(a) ==
    IF a > 0 THEN [stop |-> FALSE, attempts |-> a - 1]
             ELSE [stop |-> FALSE, attempts |-> a]

\* Mutant of BudgetGo: 0 is taken for a finite budget, as part_001 does.
BudgetGoZeroFinite(a) ==
    IF a >= 0
    THEN IF a - 1 < 0 THEN [stop |-> TRUE, attempts |-> a]
                      ELSE [stop |-> FALSE, attempts |-> a - 1]
    ELSE [stop |-> FALSE, attempts |-> a]

\* retrier.go: if r.Attempts > 0 { if r.Attempts == 1 { return false }; r.Attempts-- }
BudgetGo(a) ==
    IF a > 0
    THEN IF a = 1 THEN [stop |-> TRUE, attempts |-> a]
                  ELSE [stop |-> FALSE, attempts |-> a - 1]
    ELSE [stop |-> FALSE, attempts |-> a]

\* Mutant of BudgetOpt: stops on the last attempt, as retrier.go does.
BudgetOptStopsEarly(a) ==
    IF a >= 0
    THEN IF a - 1 < 1 THEN [stop |-> TRUE, attempts |-> a]
                      ELSE [stop |-> FALSE, attempts |-> a - 1]
    ELSE [stop |-> FALSE, attempts |-> a]

\* Mutant of BudgetOpt: tests the budget before the decrement, not after.
BudgetOptLateStop(a) ==
    IF a >= 0
    THEN IF a < 0 THEN [stop |-> TRUE, attempts |-> a]
                  ELSE [stop |-> FALSE, attempts |-> a - 1]
    ELSE [stop |-> FALSE, attempts |-> a]

\* part_001: if r.Attempts >= 0 { a := r.Attempts - 1; if a < 0 { return false };
\*                                r.Attempts = a }
BudgetOpt(a) ==
    IF a >= 0
    THEN IF a - 1 < 0 THEN [stop |-> TRUE, attempts |-> a]
                      ELSE [stop |-> FALSE, attempts |-> a - 1]
    ELSE [stop |-> FALSE, attempts |-> a]

Budget(v, a) == IF v = GoVer THEN BudgetGo(a) ELSE BudgetOpt(a)

\* Mutant of ResetDelay: the budget is restored too.
ResetAll(rr) == [rr EXCEPT !.Delay = 0, !.Attempts = attempts0]

\* Mutant of ResetDelay: the delay restarts from the floor.
ResetToFloor(rr) == [rr EXCEPT !.Delay = rr.Floor]

\* r.Delay = 0
ResetDelay(rr) == [rr EXCEPT !.Delay = 0]

\* Wait from the bookkeeping to the budget step, with the normal sample z: the
\* Retrier it leaves and whether it returns false on the budget.
Book(v, rr, z) ==
    LET b == Budget(v, rr.Attempts)
        d == NextDelay(rr, z)
    IN  [stop |-> b.stop,
         r |-> IF b.stop THEN [rr EXCEPT !.Delay = d]
                         ELSE [rr EXCEPT !.Delay = d, !.Attempts = b.attempts]]

\* case <-time.After(r.Delay): if r.Delay < r.Floor { r.Delay = r.Floor }
TimerCase(rr) == [rr EXCEPT !.Delay = ClampFloor(rr.Delay, rr.Floor)]

\* A whole Wait call whose ctx is never cancelled, with the normal sample z:
\* what it returns, the duration it gives to time.After, the Retrier it leaves.
WaitWhole(v, rr, z) ==
    LET b == Book(v, rr, z)
    IN  IF b.stop THEN [ret |-> FALSE, dur |-> NoTimer, r |-> b.r]
                  ELSE [ret |-> TRUE, dur |-> <<b.r.Delay>>, r |-> TimerCase(b.r)]

\* ----------------------------------------------------------------- history
\* The last completed operation: op is "New", "Wait" or "Reset"; for a Wait, ret
\* is what it returned, dur the duration it gave to time.After, doneAtEntry and
\* doneAtRet whether ctx was cancelled when it was called and when it returned.
NoOp == [op |-> "New", ret |-> FALSE, dur |-> NoTimer, doneAtEntry |-> FALSE,
         doneAtRet |-> FALSE]

Returned(ret, dur, atEntry, atRet) ==
    [op |-> "Wait", ret |-> ret, dur |-> dur, doneAtEntry |-> atEntry,
     doneAtRet |-> atRet]

NoFresh == [set |-> FALSE, dur |-> 0, delay |-> 0]

\* -------------------------------------------------------------------- Init
InitRetrier ==
    /\ ver \in Versions
    /\ \E floor \in Durations, ceil \in Durations, rate \in Rates, jitter \in Jitters :
         \/ /\ ver = GoVer
            /\ \E a \in 0..MaxAttempts : r = NewGo(floor, ceil, a, rate, jitter)
         \/ /\ ver = OptVer
            /\ \E a \in (0 - 1)..MaxAttempts : r = NewOpt(floor, ceil, a, rate, jitter)
    /\ ctxDone = FALSE
    /\ pc = "idle"
    /\ timer = NoTimer
    /\ fired = FALSE
    /\ pre = r
    /\ prevOp = "New"
    /\ last = NoOp
    /\ nWait = 0
    /\ nTrue = 0
    /\ attempts0 = r.Attempts
    /\ everReset = FALSE
    /\ everDone = FALSE
    /\ proceeded = FALSE
    /\ fresh = NoFresh
    /\ nCut = 0
    /\ exhausted = FALSE

\* The driver loop: count invocations of the operation so far; pc is "off" (no
\* driver), "op" (about to invoke), "wait" (about to call Wait) or "stopped".
DriverOff == [count |-> 0, pc |-> "off"]
DriverStart == [count |-> 0, pc |-> "op"]

\* No pair of Retriers is run.
PairOff == [pc |-> "off"]

Init ==
    /\ InitRetrier
    /\ drv = DriverOff
    /\ pair = PairOff

\* ----------------------------------------------------------------- actions
\* Another goroutine cancels the context (or its deadline passes).
Cancel ==
    /\ ~ctxDone
    /\ ctxDone' = TRUE
    /\ everDone' = TRUE
    /\ UNCHANGED <<ver, r, pc, timer, fired, pre, prevOp, last, nWait, nTrue,
                   attempts0, everReset, proceeded, fresh>>
    /\ UNCHANGED <<nCut, exhausted, side>>

\* The caller passes a context that is not cancelled to its next Wait.
NewContext ==
    /\ pc = "idle"
    /\ ctxDone
    /\ ctxDone' = FALSE
    /\ UNCHANGED <<ver, r, pc, timer, fired, hist>>
    /\ UNCHANGED <<nCut, exhausted, side>>

\* Mutant of WaitCancelled: ctx is tested after the delay has been advanced.
WaitCancelledLate ==
    /\ pc = "idle"
    /\ nWait < MaxCalls
    /\ ctxDone
    /\ pre' = r
    /\ prevOp' = last.op
    /\ \E z \in NormSamples : r' = [r EXCEPT !.Delay = NextDelay(r, z)]
    /\ last' = Returned(FALSE, NoTimer, TRUE, TRUE)
    /\ nWait' = nWait + 1
    /\ UNCHANGED <<ver, ctxDone, pc, timer, fired, nTrue, attempts0,
                   everReset, everDone, proceeded, fresh>>
    /\ UNCHANGED <<nCut, exhausted, side>>

\* Wait, entry select: case <-ctx.Done(): return false.
WaitCancelled ==
    /\ pc = "idle"
    /\ nWait < MaxCalls
    /\ ctxDone
    /\ pre' = r
    /\ prevOp' = last.op
    /\ last' = Returned(FALSE, NoTimer, TRUE, TRUE)
    /\ nWait' = nWait + 1
    /\ UNCHANGED <<ver, r, ctxDone, pc, timer, fired, nTrue, attempts0,
                   everReset, everDone, proceeded, fresh>>
    /\ UNCHANGED <<nCut, exhausted, side>>

\* Wait, entry select: default.
WaitEnter ==
    /\ pc = "idle"
    /\ nWait < MaxCalls
    /\ ~ctxDone
    /\ pc' = "book"
    /\ pre' = r
    /\ prevOp' = last.op
    /\ UNCHANGED <<ver, r, ctxDone, timer, fired, last, nWait, nTrue, attempts0,
                   everReset, everDone, proceeded, fresh>>
    /\ UNCHANGED <<nCut, exhausted, side>>

\* Wait, growth, jitter, clamp, then the attempt budget says stop: return false.
WaitExhausted ==
    /\ pc = "book"
    /\ \E z \in NormSamples :
         /\ Budget(ver, r.Attempts).stop
         /\ r' = [r EXCEPT !.Delay = NextDelay(r, z)]
    /\ pc' = "idle"
    /\ last' = Returned(FALSE, NoTimer, FALSE, ctxDone)
    /\ nWait' = nWait + 1
    /\ UNCHANGED <<ver, ctxDone, timer, fired, pre, prevOp, nTrue, attempts0,
                   everReset, everDone, proceeded, fresh>>
    /\ exhausted' = TRUE
    /\ UNCHANGED <<nCut, side>>

\* Wait, growth, jitter, clamp, budget decrement, then time.After(r.Delay).
WaitStartTimer ==
    /\ pc = "book"
    /\ \E z \in NormSamples :
         /\ ~Budget(ver, r.Attempts).stop
         /\ r' = [r EXCEPT !.Delay = NextDelay(r, z),
                           !.Attempts = Budget(ver, r.Attempts).attempts]
    /\ pc' = "select"
    /\ timer' = <<r'.Delay>>
    /\ fired' = FALSE
    /\ UNCHANGED <<ver, ctxDone, hist>>
    /\ UNCHANGED <<nCut, exhausted, side>>

\* The runtime timer of time.After expires and sends on its channel.
TimerFires ==
    /\ pc = "select"
    /\ ~fired
    /\ fired' = TRUE
    /\ UNCHANGED <<ver, r, ctxDone, pc, timer, hist>>
    /\ UNCHANGED <<nCut, exhausted, side>>

\* Wait, final select: case <-time.After(r.Delay): floor clamp, return true.
\* When ctx.Done() is ready too, select picks either case.
WaitTimerCase ==
    /\ pc = "select"
    /\ fired
    /\ r' = [r EXCEPT !.Delay = ClampFloor(r.Delay, r.Floor)]
    /\ pc' = "idle"
    /\ timer' = NoTimer
    /\ fired' = FALSE
    /\ last' = Returned(TRUE, timer, FALSE, ctxDone)
    /\ nWait' = nWait + 1
    /\ nTrue' = nTrue + 1
    /\ proceeded' = TRUE
    /\ fresh' = IF nWait = 0 /\ ~everReset /\ ~ctxDone
                THEN [set |-> TRUE, dur |-> timer[1], delay |-> r'.Delay]
                ELSE fresh
    /\ UNCHANGED <<ver, ctxDone, pre, prevOp, attempts0, everReset, everDone>>
    /\ UNCHANGED <<nCut, exhausted, side>>

\* Wait, final select: case <-ctx.Done(): return false.
WaitDoneCase ==
    /\ pc = "select"
    /\ ctxDone
    /\ pc' = "idle"
    /\ timer' = NoTimer
    /\ fired' = FALSE
    /\ last' = Returned(FALSE, timer, FALSE, TRUE)
    /\ nWait' = nWait + 1
    /\ UNCHANGED <<ver, r, ctxDone, pre, prevOp, nTrue, attempts0, everReset,
                   everDone, proceeded, fresh>>
    /\ nCut' = nCut + 1
    /\ UNCHANGED <<exhausted, side>>

\* Reset, called by the owner between Wait calls.
Reset ==
    /\ pc = "idle"
    /\ r' = ResetDelay(r)
    /\ pre' = r
    /\ prevOp' = last.op
    /\ last' = [NoOp EXCEPT !.op = "Reset"]
    /\ everReset' = TRUE
    /\ proceeded' = FALSE
    /\ UNCHANGED <<ver, ctxDone, pc, timer, fired, nWait, nTrue,
                   attempts0, everDone, fresh>>
    /\ UNCHANGED <<nCut, exhausted, side>>

Next ==
    \/ Cancel
    \/ NewContext
    \/ WaitCancelled
    \/ WaitEnter
    \/ WaitExhausted
    \/ WaitStartTimer
    \/ TimerFires
    \/ WaitTimerCase
    \/ WaitDoneCase
    \/ Reset

Spec == Init /\ [][Next]_vars

\* The Retrier, its caller and their history.
main == <<ver, r, ctxDone, pc, timer, fired, hist, nCut, exhausted>>

\* ------------------------------------------------------- repeated Wait calls
\* The caller calls Wait again and again; ctx is never cancelled.
WaitCall ==
    /\ pc = "idle"
    /\ ~ctxDone
    /\ \E z \in NormSamples : r' = WaitWhole(ver, r, z).r
    /\ UNCHANGED <<ver, ctxDone, pc, timer, fired, hist, nCut, exhausted, side>>

\* The Retriers without jitter.
InitBackoff ==
    /\ Init
    /\ r.Jitter = 0

SpecBackoff == InitBackoff /\ [][WaitCall]_vars /\ WF_vars(WaitCall)

\* ---------------------------------------------------------- the retry driver
\* The driver invokes the operation, which fails.
DriverInvoke ==
    /\ drv.pc = "op"
    /\ drv.count <= MaxCalls
    /\ drv' = [count |-> drv.count + 1, pc |-> "wait"]
    /\ UNCHANGED <<main, pair>>

\* The driver calls Wait, and goes on while Wait returns true.
DriverWait ==
    /\ drv.pc = "wait"
    /\ pc = "idle"
    /\ ~ctxDone
    /\ \E z \in NormSamples :
         LET w == WaitWhole(ver, r, z)
         IN  /\ r' = w.r
             /\ drv' = [drv EXCEPT !.pc = IF w.ret THEN "op" ELSE "stopped"]
    /\ UNCHANGED <<ver, ctxDone, pc, timer, fired, hist, nCut, exhausted, pair>>

InitDriver ==
    /\ InitRetrier
    /\ drv = DriverStart
    /\ pair = PairOff

NextDriver ==
    \/ DriverInvoke
    \/ DriverWait

SpecDriver == InitDriver /\ [][NextDriver]_vars

\* ------------------------------------------------- the two versions side by side
\* A retrier.go Retrier with budget k + 1 (0 when k < 0) and a part_001 Retrier
\* with budget k, constructed alike otherwise.  pc is the common position of
\* the two callers, or "split" once one Wait has returned while the other is in
\* its timed wait; done and fired are the common ctx and timer; n counts the
\* completed Wait calls; ret and dur are what the last Wait of each returned
\* and gave to time.After.
PairStart(floor, ceil, k, rate, jitter) ==
    [pc |-> "idle",
     go |-> NewGo(floor, ceil, IF k < 0 THEN 0 ELSE k + 1, rate, jitter),
     opt |-> NewOpt(floor, ceil, k, rate, jitter),
     done |-> FALSE, fired |-> FALSE, n |-> 0,
     retGo |-> FALSE, retOpt |-> FALSE, durGo |-> NoTimer, durOpt |-> NoTimer]

InitPair ==
    /\ InitRetrier
    /\ ver = GoVer
    /\ r = NewGo(0, 0, 0, FloatDen, 0)
    /\ drv = DriverOff
    /\ \E floor \in Durations, ceil \in Durations, rate \in Rates, jitter \in Jitters,
          k \in (0 - 2)..MaxAttempts :
         pair = PairStart(floor, ceil, k, rate, jitter)

\* The common ctx is cancelled.
PairCancel ==
    /\ pair.pc \in {"idle", "book", "select"}
    /\ ~pair.done
    /\ pair' = [pair EXCEPT !.done = TRUE]
    /\ UNCHANGED <<main, drv>>

\* Both callers pass a ctx that is not cancelled to their next Wait.
PairNewContext ==
    /\ pair.pc = "idle"
    /\ pair.done
    /\ pair' = [pair EXCEPT !.done = FALSE]
    /\ UNCHANGED <<main, drv>>

\* Both Wait calls, entry select: case <-ctx.Done(): return false.
PairWaitCancelled ==
    /\ pair.pc = "idle"
    /\ pair.n < MaxCalls
    /\ pair.done
    /\ pair' = [pair EXCEPT !.retGo = FALSE, !.retOpt = FALSE,
                            !.durGo = NoTimer, !.durOpt = NoTimer,
                            !.n = pair.n + 1]
    /\ UNCHANGED <<main, drv>>

\* Both Wait calls, entry select: default.
PairWaitEnter ==
    /\ pair.pc = "idle"
    /\ pair.n < MaxCalls
    /\ ~pair.done
    /\ pair' = [pair EXCEPT !.pc = "book"]
    /\ UNCHANGED <<main, drv>>

\* Both Wait calls, bookkeeping with the same normal sample: each returns false
\* on its budget or calls time.After.
PairBook ==
    /\ pair.pc = "book"
    /\ \E z \in NormSamples :
         LET bg == Book(GoVer, pair.go, z)
             bo == Book(OptVer, pair.opt, z)
         IN  pair' = [pair EXCEPT
                 !.go = bg.r,
                 !.opt = bo.r,
                 !.retGo = IF bg.stop THEN FALSE ELSE pair.retGo,
                 !.retOpt = IF bo.stop THEN FALSE ELSE pair.retOpt,
                 !.durGo = IF bg.stop THEN NoTimer ELSE <<bg.r.Delay>>,
                 !.durOpt = IF bo.stop THEN NoTimer ELSE <<bo.r.Delay>>,
                 !.fired = FALSE,
                 !.n = IF bg.stop /\ bo.stop THEN pair.n + 1 ELSE pair.n,
                 !.pc = IF bg.stop /\ bo.stop THEN "idle"
                        ELSE IF ~bg.stop /\ ~bo.stop THEN "select"
                        ELSE "split"]
    /\ UNCHANGED <<main, drv>>

\* The timers of both calls expire.
PairTimerFires ==
    /\ pair.pc = "select"
    /\ ~pair.fired
    /\ pair' = [pair EXCEPT !.fired = TRUE]
    /\ UNCHANGED <<main, drv>>

\* Both Wait calls, final select: the timer case.
PairTimerCase ==
    /\ pair.pc = "select"
    /\ pair.fired
    /\ pair' = [pair EXCEPT !.go = TimerCase(pair.go), !.opt = TimerCase(pair.opt),
                            !.retGo = TRUE, !.retOpt = TRUE,
                            !.fired = FALSE, !.n = pair.n + 1, !.pc = "idle"]
    /\ UNCHANGED <<main, drv>>

\* Both Wait calls, final select: case <-ctx.Done().
PairDoneCase ==
    /\ pair.pc = "select"
    /\ pair.done
    /\ pair' = [pair EXCEPT !.retGo = FALSE, !.retOpt = FALSE,
                            !.fired = FALSE, !.n = pair.n + 1, !.pc = "idle"]
    /\ UNCHANGED <<main, drv>>

\* Both callers call Reset.
PairReset ==
    /\ pair.pc = "idle"
    /\ pair' = [pair EXCEPT !.go = ResetDelay(pair.go), !.opt = ResetDelay(pair.opt)]
    /\ UNCHANGED <<main, drv>>

NextPair ==
    \/ PairCancel
    \/ PairNewContext
    \/ PairWaitCancelled
    \/ PairWaitEnter
    \/ PairBook
    \/ PairTimerFires
    \/ PairTimerCase
    \/ PairDoneCase
    \/ PairReset

SpecPair == InitPair /\ [][NextPair]_vars

\* ------------------------------------------------------------------ claims
\* The caller is between operations and the last one was a Wait call.
LastWait == pc = "idle" /\ last.op = "Wait"

\* 0 <= Floor <= Ceil
FloorCeilOrdered == 0 <= r.Floor /\ r.Floor <= r.Ceil

\* C1: a Wait call made while ctx is already cancelled returns false and leaves
\* every field of the Retrier as it found it, on the first call and on any later one.
C1_CancelledWaitIsNoOp ==
    (LastWait /\ last.doneAtEntry) => (last.ret = FALSE /\ r = pre)

\* A later Wait call, on a Retrier whose delay has grown, found ctx cancelled.
C1_Witness ==
    /\ LastWait /\ last.doneAtEntry
    /\ nWait >= 2 /\ nTrue >= 1 /\ r.Delay > 0

\* No cancellation and no Reset so far, jitter 0, OptVer built with Attempts(k), k >= 1.
OptBudgetRun ==
    /\ ver = OptVer /\ attempts0 >= 1 /\ r.Jitter = 0
    /\ ~everDone /\ ~everReset /\ last.op = "Wait"

C3_GoBudgetStep ==
    ver = GoVer =>
      /\ (LastWait /\ ~last.doneAtEntry /\ pre.Attempts = 1)
            => (last.ret = FALSE /\ last.dur = NoTimer /\ r.Attempts = 1)
      /\ (pc = "select" /\ pre.Attempts = 1) => FALSE
      /\ ((pc = "select" \/ (LastWait /\ ~last.doneAtEntry)) /\ pre.Attempts > 1)
            => (r.Attempts = pre.Attempts - 1)
      /\ (LastWait /\ ~last.doneAtEntry /\ pre.Attempts > 1) => (last.dur # NoTimer)
      /\ ((pc = "select" \/ LastWait) /\ pre.Attempts = 0) => (r.Attempts = 0)

\* A budget of 2 was decremented to 1 by one call, and the next call stopped on it.
C3_Witness ==
    /\ ver = GoVer /\ attempts0 = 2
    /\ LastWait /\ ~last.doneAtEntry /\ pre.Attempts = 1
    /\ nTrue = 1 /\ nWait = 2

\* C4: in part_001 a Wait call that finds the budget 0 returns false without the
\* timed wait and leaves the budget 0.
C4_OptZeroBudgetStops ==
    ver = OptVer =>
      /\ (LastWait /\ pre.Attempts = 0)
            => (last.ret = FALSE /\ last.dur = NoTimer /\ r.Attempts = 0)
      /\ (pc = "select") => (pre.Attempts # 0)
      /\ (pc = "book" /\ pre.Attempts = 0) => (r.Attempts = 0)

\* The budget was decremented to 0, and a call not cancelled on entry found it 0.
C4_Witness ==
    /\ ver = OptVer /\ attempts0 >= 1
    /\ LastWait /\ ~last.doneAtEntry /\ pre.Attempts = 0

\* C5 as stated: given 0 <= Floor <= Ceil, once a Wait has returned true,
\* Floor <= Delay <= Ceil holds between operations until Reset is called, also
\* after later Wait calls that return false.
C5_DelayWithinBounds ==
    (pc = "idle" /\ proceeded /\ FloorCeilOrdered)
        => (r.Floor <= r.Delay /\ r.Delay <= r.Ceil)

\* Jitter is 0 and Rate >= 1, and the running Wait call has started its timer.
C6_Case == pc = "select" /\ r.Jitter = 0 /\ r.Rate >= FloatDen

BudgetOpen == IF ver = GoVer THEN attempts0 # 1 ELSE attempts0 # 0

\* C7: with 0 <= Floor <= Ceil, the first Wait on a new Retrier whose budget is
\* not exhausted and whose ctx is not cancelled waits for a delay of exactly 0
\* and returns true, whatever Rate, Jitter and the jitter draw are.
C7_FirstWaitImmediate ==
    (FloorCeilOrdered /\ ~everReset) =>
      /\ (pc = "select" /\ nWait = 0) => (timer = <<0>>)
      /\ (LastWait /\ nWait = 1 /\ ~everDone /\ BudgetOpen)
            => (last.ret = TRUE /\ last.dur = <<0>>)

\* The first Wait returned true on a Retrier with jitter and a positive floor.
C7_Witness ==
    /\ FloorCeilOrdered /\ ~everReset /\ ~everDone /\ BudgetOpen
    /\ LastWait /\ nWait = 1 /\ last.ret
    /\ r.Jitter > 0 /\ r.Floor > 0

C9_ResetThenWaitAsFresh ==
    (fresh.set /\ prevOp = "Reset" /\ Unlimited(ver, attempts0)) =>
      /\ (pc = "select") => (timer = <<fresh.dur>>)
      /\ (LastWait /\ last.ret /\ ~last.doneAtRet)
            => (last.dur = <<fresh.dur>> /\ r.Delay = fresh.delay)

\* First Wait, a second Wait that grew the delay, Reset, and a third Wait.
C9_Witness ==
    /\ fresh.set /\ prevOp = "Reset" /\ Unlimited(ver, attempts0)
    /\ LastWait /\ last.ret /\ ~last.doneAtRet
    /\ nWait = 3 /\ nTrue = 3 /\ r.Floor > 0 /\ r.Jitter > 0

\* C10 as stated: a Wait call during or before which ctx was cancelled returns
\* false, however the cancellation interleaves with the timer.
C10_CancelMeansFalse ==
    (LastWait /\ last.doneAtRet) => (last.ret = FALSE)

\* The Retrier was constructed with a finite attempt budget.
FiniteBudget == ~Unlimited(ver, attempts0)

\* C11 as stated: with a finite budget, between operations the budget consumed
\* (initial minus remaining) is the number of Wait calls that returned true.
C11_Original ==
    (pc = "idle" /\ FiniteBudget) => (attempts0 - r.Attempts = nTrue)

\* C11 amended: with a finite budget, between operations the budget consumed is
\* the number of Wait calls that reached the timed wait: those that returned
\* true and those that ctx.Done ended during the timed wait.
C11_ConsumedIsTimedWaits ==
    (pc = "idle" /\ FiniteBudget) => (attempts0 - r.Attempts = nTrue + nCut)

\* A budget consumed by one Wait that returned true and one that was cancelled
\* during its timed wait, with a Reset in between.
C11_Witness ==
    /\ pc = "idle" /\ FiniteBudget
    /\ nTrue >= 1 /\ nCut >= 1 /\ everReset
    /\ attempts0 - r.Attempts = 2

\* Jitter 0, Rate >= 1, 0 <= Floor <= Ceil, no budget, no cancellation, no Reset.
C12_Case ==
    /\ r.Jitter = 0 /\ r.Rate >= FloatDen /\ FloorCeilOrdered
    /\ Unlimited(ver, attempts0) /\ ~everDone /\ ~everReset

\* C12: in that case every Wait leaves a Delay that is not below the one it
\* found, and a Wait that finds Delay = Ceil leaves Delay = Ceil.
C12_DelayMonotone ==
    (C12_Case /\ LastWait) =>
      /\ pre.Delay <= r.Delay
      /\ (pre.Delay = r.Ceil) => (r.Delay = r.Ceil)

\* The delay grew from the floor to the ceiling, and the third Wait kept it there.
C12_Witness ==
    /\ C12_Case /\ LastWait /\ nWait = 3
    /\ r.Floor < r.Ceil /\ pre.Delay = r.Ceil /\ r.Delay = r.Ceil

\* C13 as stated: with jitter 0, Rate > 1, 0 <= Floor <= Ceil and no budget,
\* repeated Wait calls (no cancellation, no Reset) eventually leave Delay = Ceil.
C13_EventuallyCeil ==
    (r.Jitter = 0 /\ r.Rate > FloatDen /\ FloorCeilOrdered /\ Unlimited(ver, r.Attempts))
        => <>(r.Delay = r.Ceil)

\* C14 as stated: with Jitter > 0 and 0 <= Floor <= Ceil, a Wait call that is not
\* the first since construction or Reset (an earlier one has returned true)
\* gives the timer a duration in [Floor, Ceil], whatever the jitter draw.
C14_TimerWithinFloorCeil ==
    (pc = "select" /\ r.Jitter > 0 /\ FloorCeilOrdered /\ proceeded)
        => (r.Floor <= timer[1] /\ timer[1] <= r.Ceil)

\* C15: a Retrier constructed without an attempt budget (Attempts = 0 in
\* retrier.go, -1 in part_001) whose ctx is never cancelled returns true from
\* every Wait, however Reset is interleaved, and its Attempts never changes.
C15_NoBudgetNeverStops ==
    (Unlimited(ver, attempts0) /\ ~everDone) =>
      /\ (last.op = "Wait") => (last.ret = TRUE)
      /\ nTrue = nWait
      /\ r.Attempts = attempts0

\* Three Wait calls and a Reset on a Retrier without a budget.
C15_Witness ==
    /\ Unlimited(ver, attempts0) /\ ~everDone
    /\ LastWait /\ nWait = 3 /\ nTrue = 3 /\ everReset

\* The driver loop has stopped, and its attempt cap k >= 1 was the Retrier's budget.
C16_Case == drv.pc = "stopped" /\ attempts0 >= 1

C18_VersionsAgree ==
    (pair.pc # "off") =>
      /\ pair.pc # "split"
      /\ pair.retGo = pair.retOpt
      /\ pair.durGo = pair.durOpt
      /\ pair.go.Delay = pair.opt.Delay

\* Both Retriers stopped on their budgets in the same call, after two calls
\* that returned true, with jitter and a grown delay.
C18_Witness ==
    /\ pair.pc = "idle" /\ pair.n = 3 /\ ~pair.done
    /\ pair.retGo = FALSE /\ pair.durGo = NoTimer
    /\ pair.go.Attempts = 1 /\ pair.opt.Attempts = 0
    /\ pair.go.Jitter > 0 /\ pair.go.Delay > 0

C20_TimerAtMostCeil ==
    (pc = "select") => (timer # NoTimer /\ timer[1] <= r.Ceil)

\* A Wait with Floor above Ceil and jitter, its delay grown past Ceil, waits Ceil.
C20_Witness ==
    /\ pc = "select" /\ r.Floor > r.Ceil /\ r.Jitter > 0
    /\ pre.Delay > r.Ceil /\ timer = <<r.Ceil>>

====
